---- MODULE Spec2Model ----
(***************************************************************************)
(* Model of scripts/fetch_market.py: the phase-signal engine calc_phase    *)
(* (bar/flow alignment, OBV, muges, volume ratio, SMP, consecutive         *)
(* net-buy counter, ordered rule cascade), the bounded history store       *)
(* append_history, and main's per-instrument loop with its history update. *)
(*                                                                         *)
(* Numbers.  Prices, volumes and flow amounts are integers (the fetch      *)
(* layer builds every field with safe_int).  Every quotient the code       *)
(* forms in floating point is kept here as an exact fraction <<n, d>>      *)
(* with d > 0 in lowest terms; comparisons against the thresholds of the   *)
(* cascade are exact.  Dates are day numbers: the code only compares       *)
(* dates for equality (merge on "date"), and astype(str) is applied to     *)
(* values that are already strings.                                        *)
(***************************************************************************)
EXTENDS Integers, Sequences, FiniteSets, TLC

VARIABLES
    stock,      \* the instrument dict main passes round (code, price, mktcap)
    ohlcv,      \* fetch_ohlcv's result: the price bars, oldest first
    supply,     \* fetch_stock_supply's result: the flow rows, oldest first
    loc,        \* calc_phase's locals at its return
    result,     \* the dict calc_phase returned
    pc,         \* position of the run
    hist,       \* the history store: date key -> entry
    appended,   \* every date key append_history was called with so far
    order,      \* the order in which the runs' date keys arrive
    step,       \* number of scheduled appends made
    rerun,      \* whether the extra (re-run / stray key) append was made
    last,       \* arguments of the latest append_history call
    unique,     \* main's de-duplicated ranking, largest traded value first
    idx,        \* number of iterations of main's loop that have ended
    stocks_,    \* main's result list
    file,       \* the content of history.json
    nAppend,    \* number of append_history calls main has made
    nCalc,      \* number of calc_phase calls main has made
    failed      \* <<position, line>> of every exception main's loop caught

mainVars == <<unique, idx, stocks_, file, nAppend, nCalc, failed>>

vars == <<stock, ohlcv, supply, loc, result, pc, hist, appended, order, step, rerun, last,
          unique, idx, stocks_, file, nAppend, nCalc, failed>>

(***************************************************************************)
(* Program constants.                                                      *)
(***************************************************************************)
MinBars == 21
Window == 20
SmpWindow == 10
MktcapUnit == 100000000
MaxEntries == 60
MAX_STOCKS == 50

(***************************************************************************)
(* Bounds of the model.                                                    *)
(***************************************************************************)
ExtraBars == 1
MaxRun == 5
KeyBase == 9

(***************************************************************************)
(* Exact fractions.                                                        *)
(***************************************************************************)
Abs(x) == IF x < 0 THEN -x ELSE x

RECURSIVE GCD(_, _)
GCD(a, b) == IF b = 0 THEN a ELSE GCD(b, a % b)

Norm(n, d) ==
    LET g == GCD(Abs(n), Abs(d))
        s == IF d < 0 THEN -1 ELSE 1
    IN  <<(s * n) \div g, (s * d) \div g>>

Frac(n) == <<n, 1>>
RAdd(a, b) == Norm(a[1] * b[2] + b[1] * a[2], a[2] * b[2])
RDiv(a, b) == Norm(a[1] * b[2], a[2] * b[1])
RLt(a, b) == a[1] * b[2] < b[1] * a[2]
RLe(a, b) == a[1] * b[2] <= b[1] * a[2]

RECURSIVE RSum(_, _, _)
RSum(s, lo, hi) == IF lo > hi THEN Frac(0) ELSE RAdd(s[lo], RSum(s, lo + 1, hi))

RECURSIVE ISum(_, _, _)
ISum(s, lo, hi) == IF lo > hi THEN 0 ELSE s[lo] + ISum(s, lo + 1, hi)

\* round(x, 2): to the nearest hundredth, a tie going to the even hundredth
\* (Python rounds the binary value, so a decimal tie that is no binary
\* fraction may fall either way there; no property below rests on a tie).
Round2(q) ==
    LET x == q[1] * 100
        f == x \div q[2]
        r == x % q[2]
        h == IF 2 * r < q[2] THEN f
             ELSE IF 2 * r > q[2] THEN f + 1
             ELSE IF f % 2 = 0 THEN f ELSE f + 1
    IN  Norm(h, 100)

\* d.get(key, default)
Get(d, key, default) == IF key \in DOMAIN d THEN d[key] ELSE default

Last(s) == s[Len(s)]

(***************************************************************************)
(* calc_phase: the indicator columns, computed on the bars alone.          *)
(***************************************************************************)
empty ==
    [phase |-> "", phase_key |-> "none", smp |-> Frac(0), muges_ratio |-> Frac(1),
     vol_ratio |-> Frac(1), f_consec |-> 0, i_consec |-> 0, obv_above_ma |-> FALSE]

InsufficientShort(rows) == Len(rows) < Window
InsufficientHistory(rows) == Len(rows) < MinBars

\* df[df["close"] > 0]; to_numeric(...).fillna(0) leaves the integer fields
\* as they are, and the open column is read by nothing
ValidBars(o) == SelectSeq(o, LAMBDA b : b.close > 0)

\* df["muges"]: a day without volume has no quotient and is filled with 1.
Muges(b) ==
    IF b.volume = 0 THEN Frac(1)
    ELSE Norm((b.high + b.low + b.close) * b.volume, 3 * b.close * b.volume)

MugesCol(df) == [i \in 1..Len(df) |-> Muges(df[i])]

ObvStepGe(prev, p, c, v) == prev + (IF c >= p THEN v ELSE -v)
ObvStep(prev, p, c, v) == prev + (IF c > p THEN v ELSE IF c < p THEN -v ELSE 0)

RECURSIVE ObvUpTo(_, _)
ObvUpTo(df, i) ==
    IF i = 1 THEN <<0>>
    ELSE LET o == ObvUpTo(df, i - 1)
         IN  Append(o, ObvStep(o[i - 1], df[i - 1].close, df[i].close, df[i].volume))

ObvCol(df) == ObvUpTo(df, Len(df))

VolumeCol(df) == [i \in 1..Len(df) |-> df[i].volume]

\* s.rolling(w).mean() at row i, for a column of integers; "NaN" below w rows.
HasWindow(i, w) == i >= w
IntRollingMean(s, i, w) == Norm(ISum(s, i - w + 1, i), w)
RatRollingMean(s, i, w) == RDiv(RSum(s, i - w + 1, i), Frac(w))

\* df["vol_ratio"] at row i
VolRatioAt(df, i) ==
    IF ~HasWindow(i, Window) THEN Frac(1)
    ELSE LET ma == IntRollingMean(VolumeCol(df), i, Window)
         IN  IF ma[1] = 0 THEN Frac(1) ELSE RDiv(Frac(df[i].volume), ma)

(***************************************************************************)
(* calc_phase: aligning the bars with the flow rows (df.merge, how="left") *)
(* and the flow-based values.  A cell of the merged table is either a      *)
(* number or NaN.                                                          *)
(***************************************************************************)
NaN == [nan |-> TRUE, v |-> 0]
Cell(x) == [nan |-> FALSE, v |-> x]

FillnaOne(c) == IF c.nan THEN 1 ELSE c.v
Fillna(c) == IF c.nan THEN 0 ELSE c.v

MatchingFlows(d, sup) == SelectSeq(sup, LAMBDA r : r.date = d)

\* the merged rows one bar gives: one per flow row of its date, in the flow
\* rows' order, or a single row of NaN cells when no flow row has its date
MergeBar(i, b, sup) ==
    LET m == MatchingFlows(b.date, sup)
    IN  IF Len(m) = 0
        THEN << [bar |-> i, date |-> b.date, close |-> b.close,
                 foreign |-> NaN, inst |-> NaN, foreign_amt |-> NaN, inst_amt |-> NaN] >>
        ELSE [j \in 1..Len(m) |->
                [bar |-> i, date |-> b.date, close |-> b.close,
                 foreign |-> Cell(m[j].foreign), inst |-> Cell(m[j].inst),
                 foreign_amt |-> Cell(m[j].foreign_amt), inst_amt |-> Cell(m[j].inst_amt)]]

RECURSIVE MergeUpTo(_, _, _)
MergeUpTo(df, sup, i) ==
    IF i = 0 THEN <<>> ELSE MergeUpTo(df, sup, i - 1) \o MergeBar(i, df[i], sup)

LeftMerge(df, sup) == MergeUpTo(df, sup, Len(df))

FillFlows(rows) ==
    [k \in 1..Len(rows) |->
        [rows[k] EXCEPT !.foreign = Fillna(@), !.inst = Fillna(@),
                        !.foreign_amt = Fillna(@), !.inst_amt = Fillna(@)]]

\* the table of the "if supply:" branch
Align(df, sup) == FillFlows(LeftMerge(df, sup))

\* the table of the else branch: foreign and inst columns of 0.0, no amount columns
NoFlowTable(df) ==
    [i \in 1..Len(df) |->
        [bar |-> i, date |-> df[i].date, close |-> df[i].close, foreign |-> 0, inst |-> 0]]

AmtCol(rows) == [k \in 1..Len(rows) |-> rows[k].foreign_amt + rows[k].inst_amt]
ForeignCol(rows) == [k \in 1..Len(rows) |-> rows[k].foreign]
InstCol(rows) == [k \in 1..Len(rows) |-> rows[k].inst]

SmpAtNoGuard(rows, k, mktcap) ==
    IF mktcap # 0
    THEN IF HasWindow(k, SmpWindow)
         THEN Norm(ISum(AmtCol(rows), k - SmpWindow + 1, k) * 100, mktcap * MktcapUnit)
         ELSE Frac(0)
    ELSE Frac(0)

\* df["smp"] at row k of the aligned table; a NaN (fewer than 10 rows) reads as 0.0
SmpAt(rows, k, mktcap) ==
    IF mktcap > 0
    THEN IF HasWindow(k, SmpWindow)
         THEN Norm(ISum(AmtCol(rows), k - SmpWindow + 1, k) * 100, mktcap * MktcapUnit)
         ELSE Frac(0)
    ELSE Frac(0)

\* consec: scan from the end while the value is > 0 (its dropna() removes
\* nothing: the column was filled with 0 before)
RECURSIVE ConsecFrom(_, _)
ConsecFrom(s, i) ==
    IF i = 0 THEN 0
    ELSE IF s[i] > 0 THEN 1 + ConsecFrom(s, i - 1) ELSE 0

RECURSIVE ConsecNonNegativeFrom(_, _)
ConsecNonNegativeFrom(s, i) ==
    IF i = 0 THEN 0
    ELSE IF s[i] >= 0 THEN 1 + ConsecNonNegativeFrom(s, i - 1) ELSE 0

ConsecNonNegative(s) == ConsecNonNegativeFrom(s, Len(s))
Consec(s) == ConsecFrom(s, Len(s))

(***************************************************************************)
(* calc_phase: the rule cascade (if / elif chain).  Labels stand for the   *)
(* source's strings: GOLDEN, P2 volume breakout, P2 flow acceleration,     *)
(* P2 early rally, P1 composite flow, P1 quiet accumulation, P1 OBV        *)
(* accumulation, P3 distribution warning, P3 ownership-turnover warning.   *)
(***************************************************************************)
CascadeCompositeFirst(smp, f_consec, it_, ft, mr, vr, obv_up, chg) ==
    IF smp[1] > 0 /\ f_consec >= 3 /\ it_ > 0
        THEN <<"P1 composite flow", "p1">>
    ELSE IF smp[1] > 0 /\ f_consec >= 3 /\ it_ > 0 /\ RLt(mr, <<4, 5>>) /\ RLt(vr, <<3, 2>>)
        THEN <<"GOLDEN", "golden">>
    ELSE IF RLe(Frac(2), vr) /\ ft > 0
        THEN <<"P2 volume breakout", "p2">>
    ELSE IF f_consec >= 5 /\ smp[1] > 0 /\ RLe(<<6, 5>>, vr)
        THEN <<"P2 flow acceleration", "p2">>
    ELSE IF ft > 0 /\ it_ > 0 /\ RLe(<<13, 10>>, vr) /\ smp[1] > 0 /\ f_consec >= 2
        THEN <<"P2 early rally", "p2">>
    ELSE IF RLt(mr, <<1, 2>>) /\ smp[1] > 0 /\ ft > 0
        THEN <<"P1 quiet accumulation", "p1">>
    ELSE IF obv_up /\ RLe(chg, Frac(0))
        THEN <<"P1 OBV accumulation", "p1">>
    ELSE IF RLt(Frac(3), mr) /\ ft < 0
        THEN <<"P3 distribution warning", "p3">>
    ELSE IF ft < 0 /\ it_ < 0
        THEN <<"P3 ownership-turnover warning", "p3">>
    ELSE <<"", "none">>

Cascade(smp, f_consec, it_, ft, mr, vr, obv_up, chg) ==
    IF smp[1] > 0 /\ f_consec >= 3 /\ it_ > 0 /\ RLt(mr, <<4, 5>>) /\ RLt(vr, <<3, 2>>)
        THEN <<"GOLDEN", "golden">>
    ELSE IF RLe(Frac(2), vr) /\ ft > 0
        THEN <<"P2 volume breakout", "p2">>
    ELSE IF f_consec >= 5 /\ smp[1] > 0 /\ RLe(<<6, 5>>, vr)
        THEN <<"P2 flow acceleration", "p2">>
    ELSE IF ft > 0 /\ it_ > 0 /\ RLe(<<13, 10>>, vr) /\ smp[1] > 0 /\ f_consec >= 2
        THEN <<"P2 early rally", "p2">>
    ELSE IF smp[1] > 0 /\ f_consec >= 3 /\ it_ > 0
        THEN <<"P1 composite flow", "p1">>
    ELSE IF RLt(mr, <<1, 2>>) /\ smp[1] > 0 /\ ft > 0
        THEN <<"P1 quiet accumulation", "p1">>
    ELSE IF obv_up /\ RLe(chg, Frac(0))
        THEN <<"P1 OBV accumulation", "p1">>
    ELSE IF RLt(Frac(3), mr) /\ ft < 0
        THEN <<"P3 distribution warning", "p3">>
    ELSE IF ft < 0 /\ it_ < 0
        THEN <<"P3 ownership-turnover warning", "p3">>
    ELSE <<"", "none">>

(***************************************************************************)
(* calc_phase(ohlcv, supply, mktcap): the locals at the return and the     *)
(* returned dict.  With the integer fields the fetch functions build, no   *)
(* statement of the try block raises (the divisions are pandas divisions   *)
(* or guarded), so the except branch is not taken.                         *)
(***************************************************************************)
CalcPhase(o, sup, mktcap) ==
    IF InsufficientHistory(o)
    THEN [loc |-> [path |-> "short"], result |-> empty]
    ELSE
    LET df == ValidBars(o)
    IN  IF InsufficientHistory(df)
        THEN [loc |-> [path |-> "filtered"], result |-> empty]
        ELSE
        LET muges == MugesCol(df)
            obv == ObvCol(df)
            rows == IF Len(sup) > 0 THEN Align(df, sup) ELSE NoFlowTable(df)
            f_consec == IF Len(sup) > 0 THEN Consec(ForeignCol(rows)) ELSE 0
            i_consec == IF Len(sup) > 0 THEN Consec(InstCol(rows)) ELSE 0
            n == Len(rows)
            t == rows[n]
            smp == IF Len(sup) > 0 THEN SmpAt(rows, n, mktcap) ELSE Frac(0)
            ma == IF HasWindow(t.bar, Window)
                  THEN RatRollingMean(muges, t.bar, Window) ELSE Frac(0)
            mm == IF ma[1] = 0 THEN Frac(1) ELSE ma
            mr == RDiv(muges[t.bar], mm)
            vr == VolRatioAt(df, t.bar)
            obv_ma == IF HasWindow(t.bar, Window)
                      THEN IntRollingMean(obv, t.bar, Window) ELSE Frac(0)
            obv_up == RLt(obv_ma, Frac(obv[t.bar]))
            chg == IF n >= 2 /\ rows[n - 1].close > 0
                   THEN Norm((t.close - rows[n - 1].close) * 100, rows[n - 1].close)
                   ELSE Frac(0)
            ft == Get(t, "foreign", 0)
            it_ == Get(t, "inst", 0)
            ph == Cascade(smp, f_consec, it_, ft, mr, vr, obv_up, chg)
        IN  [loc |-> [path |-> "full", df |-> df, muges |-> muges, obv |-> obv,
                      rows |-> rows, smp |-> smp, mm |-> mm, mr |-> mr, vr |-> vr,
                      obv_ma |-> obv_ma, obv_up |-> obv_up, chg |-> chg,
                      ft |-> ft, it_ |-> it_,
                      f_consec |-> f_consec, i_consec |-> i_consec],
             result |-> [phase |-> ph[1], phase_key |-> ph[2], smp |-> Round2(smp),
                         muges_ratio |-> Round2(mr), vol_ratio |-> Round2(vr),
                         f_consec |-> f_consec, i_consec |-> i_consec,
                         obv_above_ma |-> obv_up]]

(***************************************************************************)
(* The inputs of one instrument.  Bars: a run of quiet base bars followed  *)
(* by the two most recent bars, each of its own kind.  Flow rows: a run of *)
(* rows of one kind on the days before the last bar's, then a row (or      *)
(* none) for the last bar's day, then possibly a repeated or a stray row.  *)
(***************************************************************************)
Bar(d, k) == [date |-> d, close |-> k[1], high |-> k[2], low |-> k[3], volume |-> k[4]]

\* <<close, high, low, volume>>
BaseKind == <<2, 8, 2, 4>>
LastBarKinds ==
    { <<2, 8, 2, 4>>,  <<2, 2, 0, 4>>,  <<2, 2, 2, 5>>,  <<2, 8, 2, 6>>,
      <<2, 2, 0, 7>>,  <<2, 8, 2, 10>>, <<2, 40, 2, 4>>, <<2, 8, 2, 0>>,
      <<0, 0, 0, 0>>,  <<3, 12, 3, 4>>, <<1, 4, 1, 4>>,  <<3, 3, 0, 10>> }
PrevBarKinds ==
    { <<2, 8, 2, 4>>, <<3, 12, 3, 4>>, <<2, 8, 2, 0>>, <<0, 0, 0, 0>>, <<1, 1, 1, 6>> }

BarLengths == {0, 2} \cup ((MinBars - 1)..(MinBars + ExtraBars))

BarsOf(n, k1, k2) ==
    [i \in 1..n |-> IF i = n THEN Bar(i, k2) ELSE IF i = n - 1 THEN Bar(i, k1)
                    ELSE Bar(i, BaseKind)]

\* n bars whose last two carry the same date: fetch_ohlcv passes the rows of
\* the response on as they come
BarsRepeat(n, k1, k2) ==
    [i \in 1..n |-> IF i = n THEN Bar(n - 1, k2) ELSE IF i = n - 1 THEN Bar(n - 1, k1)
                    ELSE Bar(i, BaseKind)]

\* fetch_stock_supply's row: foreign/inst are the amount, or the quantity
\* when the amount is 0
FlowRow(d, k) ==
    [date |-> d, foreign_amt |-> k[1], inst_amt |-> k[3],
     foreign |-> IF k[1] # 0 THEN k[1] ELSE k[2],
     inst |-> IF k[3] # 0 THEN k[3] ELSE k[4]]

\* <<foreign amount, foreign quantity, inst amount, inst quantity>>
BothBuy == <<10000, 3, 10000, 2>>
BothSell == <<-10000, -3, -10000, -2>>
ForeignBuy == <<10000, 3, -10000, -2>>
InstBuy == <<-10000, -3, 10000, 2>>
NoTrade == <<0, 0, 0, 0>>
QtyOnly == <<0, 5, 0, 5>>
RunKinds == {BothBuy, BothSell, QtyOnly}
LastFlowKinds == {BothBuy, BothSell, ForeignBuy, InstBuy, NoTrade, QtyOnly}

\* n: the last bar's date; len rows of kind rk before it; lk: the last day's
\* row, <<>> for none; extra: "none", "repeat" (the final row a second time)
\* or "stray" (a row whose date no bar has)
FlowsOf(n, rk, len, lk, extra) ==
    LET run == [j \in 1..len |-> FlowRow(n - len - 1 + j, rk)]
        body == IF lk = <<>> THEN run ELSE Append(run, FlowRow(n, lk))
    IN  IF extra = "repeat" /\ Len(body) > 0 THEN Append(body, body[Len(body)])
        ELSE IF extra = "stray" THEN Append(body, FlowRow(n + 1, BothBuy))
        ELSE body

FlowsRich(n) ==
    { FlowsOf(n, rk, len, lk, extra) :
        rk \in RunKinds, len \in 0..MaxRun, lk \in LastFlowKinds \cup {<<>>},
        extra \in {"none", "repeat", "stray"} }

FlowsCore(n) ==
    { <<>>,
      FlowsOf(n, BothBuy, MaxRun, BothBuy, "none"),
      FlowsOf(n, BothBuy, 2, BothBuy, "none"),
      FlowsOf(n, BothBuy, 2, BothBuy, "repeat"),
      FlowsOf(n, BothBuy, 3, <<>>, "none"),
      FlowsOf(n, BothSell, 1, BothSell, "none"),
      FlowsOf(n, QtyOnly, 1, ForeignBuy, "stray"),
      FlowsOf(n, BothBuy, 1, InstBuy, "none"),
      <<FlowRow(n - 4, BothSell)>> \o FlowsOf(n, BothBuy, 3, ForeignBuy, "none") }

\* every bar sequence with a few flow sequences, every flow sequence with
\* the bar sequences that differ in the last bar only, and the bar sequences
\* that repeat their last date with a few flow sequences
Inputs ==
    UNION { { <<BarsOf(n, k1, k2), s>> :
                k1 \in PrevBarKinds, k2 \in LastBarKinds, s \in FlowsCore(n) } :
            n \in BarLengths }
    \cup
    { <<BarsOf(MinBars + ExtraBars, BaseKind, k2), s>> :
        k2 \in LastBarKinds, s \in FlowsRich(MinBars + ExtraBars) }
    \cup
    { <<BarsRepeat(MinBars, k1, k2), s>> :
        k1 \in PrevBarKinds, k2 \in LastBarKinds, s \in FlowsCore(MinBars - 1) }

\* the instrument dicts: the ranking rows set mktcap with safe_int
Stocks ==
    { [code |-> "A", price |-> 100] }
    \cup { [code |-> "A", price |-> 100, mktcap |-> m] : m \in {-1, 0, 3} }

(***************************************************************************)
(* The history store.  A date key is a string, here a tuple of symbols     *)
(* 0..KeyBase-1; sorted() orders the keys as Python orders strings.        *)
(***************************************************************************)
RECURSIVE LexLess(_, _)
LexLess(s, u) ==
    IF Len(s) = 0 THEN Len(u) > 0
    ELSE IF Len(u) = 0 THEN FALSE
    ELSE IF s[1] # u[1] THEN s[1] < u[1]
    ELSE LexLess(Tail(s), Tail(u))

\* sorted(S)[:n]
RECURSIVE SortedPrefix(_, _)
SortedPrefix(S, n) ==
    IF n <= 0 \/ S = {} THEN <<>>
    ELSE LET m == CHOOSE x \in S : \A y \in S \ {x} : LexLess(x, y)
         IN  <<m>> \o SortedPrefix(S \ {m}, n - 1)

\* sorted(S)[n:] as a set
RECURSIVE SortedSuffixSet(_, _)
SortedSuffixSet(S, n) ==
    IF n <= 0 \/ S = {} THEN S
    ELSE LET m == CHOOSE x \in S : \A y \in S \ {x} : LexLess(x, y)
         IN  SortedSuffixSet(S \ {m}, n - 1)

Range(s) == {s[i] : i \in DOMAIN s}

\* the entry of one date: the dict comprehension over the stocks with
\* price > 0 (a later stock of the same code replaces an earlier one)
BuildEntry(stocks, ms, indices) ==
    LET kept == {i \in DOMAIN stocks : Get(stocks[i], "price", 0) > 0}
        codes == {stocks[i].code : i \in kept}
        pick(c) == stocks[CHOOSE i \in kept :
                             /\ stocks[i].code = c
                             /\ \A j \in kept : stocks[j].code = c => j <= i]
    IN  [stocks |->
            [c \in codes |->
                [name |-> pick(c).name, market |-> pick(c).market,
                 price |-> pick(c).price, change |-> pick(c).change,
                 phase |-> Get(pick(c), "phase", ""),
                 phase_key |-> Get(pick(c), "phase_key", "none"),
                 nh_flag |-> Get(pick(c), "nh_flag", "")]],
         market_supply |-> ms, indices |-> indices]

Put(h, k, e) == [x \in DOMAIN h \cup {k} |-> IF x = k THEN e ELSE h[x]]

Without(h, ks) == [x \in DOMAIN h \ ks |-> h[x]]

AppendHistoryKeepOld(h, date_str, stocks, ms, indices) ==
    LET h1 == IF date_str \in DOMAIN h THEN h
              ELSE Put(h, date_str, BuildEntry(stocks, ms, indices))
        old == SortedPrefix(DOMAIN h1, Cardinality(DOMAIN h1) - MaxEntries)
    IN  Without(h1, Range(old))

AppendHistoryDropNewest(h, date_str, stocks, ms, indices) ==
    LET h1 == Put(h, date_str, BuildEntry(stocks, ms, indices))
        new == SortedSuffixSet(DOMAIN h1, MaxEntries)
    IN  Without(h1, new)

\* append_history(hist, date_str, stocks, ms, indices)
AppendHistory(h, date_str, stocks, ms, indices) ==
    LET h1 == Put(h, date_str, BuildEntry(stocks, ms, indices))
        old == SortedPrefix(DOMAIN h1, Cardinality(DOMAIN h1) - MaxEntries)
    IN  Without(h1, Range(old))

\* what one run hands to append_history
StockA == [code |-> "A", name |-> "a", market |-> "KOSPI", price |-> 100, change |-> 1,
           phase |-> "GOLDEN", phase_key |-> "golden", nh_flag |-> "near high"]
StockB == [code |-> "B", name |-> "b", market |-> "KOSDAQ", price |-> 0, change |-> 0,
           phase |-> "", phase_key |-> "none", nh_flag |-> ""]
StockC == [code |-> "C", name |-> "c", market |-> "KOSDAQ", price |-> 50, change |-> -2]
StockA2 == [code |-> "A", name |-> "a", market |-> "KOSPI", price |-> 120, change |-> 3,
            phase |-> "P2 early rally", phase_key |-> "p2", nh_flag |-> ""]

Payloads ==
    << [stocks |-> <<StockA, StockB>>, ms |-> [foreign_net |-> 5], indices |-> <<"KOSPI">>],
       [stocks |-> <<StockC, StockA2>>, ms |-> [foreign_net |-> -3], indices |-> <<>>],
       [stocks |-> <<StockA, StockC, StockA2>>, ms |-> [foreign_net |-> 0],
        indices |-> <<"KOSPI", "KOSDAQ">>] >>

NumKeys == KeyBase * KeyBase
KeyOf(i) == <<i \div KeyBase, i % KeyBase>>
Orders == {1, NumKeys - 1, 37}
ScheduledKey == KeyOf((step * order) % NumKeys)
ScheduledPayload == Payloads[(step % 2) + 1]
StrayKeys ==
    {KeyOf(i) : i \in {0, 1, NumKeys \div 2, NumKeys - 2, NumKeys - 1}}
    \cup {<<0>>, <<KeyBase - 1>>, <<KeyBase - 1, KeyBase - 1, 0>>}

NoCall == [key |-> <<>>, stocks |-> <<>>, ms |-> [foreign_net |-> 0], indices |-> <<>>]

\* main's loop is not running
InitMainIdle ==
    /\ unique = <<>>
    /\ idx = 0
    /\ stocks_ = <<>>
    /\ file = <<>>
    /\ nAppend = 0
    /\ nCalc = 0
    /\ failed = {}

InitHistoryIdle ==
    /\ hist = <<>>
    /\ appended = {}
    /\ order = 1
    /\ step = 0
    /\ rerun = "no"
    /\ last = NoCall

Call(k, p) ==
    /\ hist' = AppendHistory(hist, k, p.stocks, p.ms, p.indices)
    /\ appended' = appended \cup {k}
    /\ last' = [key |-> k, stocks |-> p.stocks, ms |-> p.ms, indices |-> p.indices]

\* the day's run: main's append_history(hist, today_str, stocks, market_supply, indices)
AppendScheduled ==
    /\ pc = "history"
    /\ step < NumKeys
    /\ Call(ScheduledKey, ScheduledPayload)
    /\ step' = step + 1
    /\ UNCHANGED <<stock, ohlcv, supply, loc, result, pc, order, rerun>>
    /\ UNCHANGED mainVars

\* a second run of the same day with the same data
AppendAgain ==
    /\ pc = "history"
    /\ rerun = "no"
    /\ last # NoCall
    /\ Call(last.key, [stocks |-> last.stocks, ms |-> last.ms, indices |-> last.indices])
    /\ rerun' = "again"
    /\ UNCHANGED <<stock, ohlcv, supply, loc, result, pc, order, step>>
    /\ UNCHANGED mainVars

\* a run under any other key, with any data
AppendStray ==
    /\ pc = "history"
    /\ rerun = "no"
    /\ \E k \in StrayKeys, i \in DOMAIN Payloads :
          /\ Call(k, Payloads[i])
          /\ rerun' = IF k \in DOMAIN hist THEN "replaced" ELSE "new"
    /\ UNCHANGED <<stock, ohlcv, supply, loc, result, pc, order, step>>
    /\ UNCHANGED mainVars

InitHistory ==
    /\ stock = [code |-> "A", price |-> 100]
    /\ ohlcv = <<>>
    /\ supply = <<>>
    /\ loc = [path |-> "pending"]
    /\ result = [phase_key |-> "pending"]
    /\ pc = "history"
    /\ hist = <<>>
    /\ appended = {}
    /\ order \in Orders
    /\ step = 0
    /\ rerun = "no"
    /\ last = NoCall
    /\ InitMainIdle

NextHistory == AppendScheduled \/ AppendAgain \/ AppendStray

SpecHistory == InitHistory /\ [][NextHistory]_vars

(***************************************************************************)
(* One instrument: main's call stock.update(calc_phase(ohlcv, supply,      *)
(* stock.get("mktcap", 0))).                                               *)
(***************************************************************************)
Init ==
    /\ stock \in Stocks
    /\ \E in \in Inputs : ohlcv = in[1] /\ supply = in[2]
    /\ loc = [path |-> "pending"]
    /\ result = [phase_key |-> "pending"]
    /\ pc = "call"
    /\ InitHistoryIdle
    /\ InitMainIdle

CallCalcPhase ==
    /\ pc = "call"
    /\ LET r == CalcPhase(ohlcv, supply, Get(stock, "mktcap", 0))
       IN  /\ loc' = r.loc
           /\ result' = r.result
    /\ pc' = "done"
    /\ UNCHANGED <<stock, ohlcv, supply, hist, appended, order, step, rerun, last>>
    /\ UNCHANGED mainVars

Next == CallCalcPhase

Spec == Init /\ [][Next]_vars

Full == pc = "done" /\ loc.path = "full"

(***************************************************************************)
(* main's per-instrument loop and its history update (lines 557-592).      *)
(* The run is taken up where the loop starts: the token, the indices, the  *)
(* market flows and the rankings are fetched and `unique` is built.        *)
(*                                                                         *)
(* Exceptions.  fetch_ohlcv and fetch_stock_supply end in a bare except    *)
(* that returns [], and calc_phase returns its neutral dict from its own   *)
(* except clause, so a failed fetch or classification reaches main as an   *)
(* empty series or a neutral result, never as an exception.  The           *)
(* statements of the try block that can raise are its two print calls      *)
(* (OSError on a closed or non-blocking stdout): line 562, before the      *)
(* fetches, and line 577, after stocks.append.  The handler prints as      *)
(* well (line 579); when that print raises, the exception leaves main.     *)
(*                                                                         *)
(* calc_top_traders, the phase statistics and the market.json payload      *)
(* only read the result list and are left out; nh_ratio, supply_periods    *)
(* and indiv_today are set on the instrument and read by nothing here.     *)
(***************************************************************************)
\* a ranking row; k stands for the six-digit code
Instrument(k) ==
    [code |-> k, name |-> k, market |-> IF k % 2 = 0 THEN "KOSPI" ELSE "KOSDAQ",
     price |-> 100, change |-> 1, mktcap |-> 3, high52 |-> <<100, 102, 0>>[(k % 3) + 1]]

\* unique: distinct codes, price > 0
Ranking(n) == [k \in 1..n |-> Instrument(k)]

Rankings == {Ranking(n) : n \in {0, 2, MAX_STOCKS, MAX_STOCKS + 2}}

\* unique[:MAX_STOCKS]
Selected(u) == SubSeq(u, 1, IF Len(u) < MAX_STOCKS THEN Len(u) ELSE MAX_STOCKS)

MoreToDoButLast(n, sel) == n < Len(sel) - 1

\* the for statement: an instrument is left after n iterations
MoreToDo(n, sel) == n < Len(sel)

\* what fetch_ohlcv returns for code k: a full history, [] (the request
\* failed) or a history too short to classify
FetchedBars(k) ==
    IF k % 3 = 1 THEN BarsOf(MinBars, BaseKind, <<2, 2, 0, 4>>)
    ELSE IF k % 3 = 2 THEN <<>>
    ELSE BarsOf(2, BaseKind, BaseKind)

\* what fetch_stock_supply returns for code k
FetchedFlows(k) ==
    IF k % 3 = 1 THEN FlowsOf(MinBars, BothBuy, 3, BothBuy, "none")
    ELSE IF k % 3 = 2 THEN <<>>
    ELSE FlowsOf(2, BothSell, 1, BothSell, "none")

\* dict.update and item assignment
Update(d, e) == [k \in DOMAIN d \cup DOMAIN e |-> IF k \in DOMAIN e THEN e[k] ELSE d[k]]

\* r = p/h*100 if h > 0 else 0, against 99.5 and 97
NhFlag(p, h) ==
    IF h > 0 /\ 200 * p >= 199 * h THEN "52w high"
    ELSE IF h > 0 /\ 100 * p >= 97 * h THEN "near high"
    ELSE ""

\* the instrument after lines 565-575
Classified(s, res, sup) ==
    LET td == IF Len(sup) > 0 THEN sup[Len(sup)] ELSE <<>>
    IN  Update(Update(s, res),
               [nh_flag |-> NhFlag(s.price, Get(s, "high52", 0)),
                foreign_today |-> Get(td, "foreign", 0),
                inst_today |-> Get(td, "inst", 0)])

today_str == KeyOf(NumKeys - 1)
market_supply == [foreign_net |-> 5]
indices_ == <<"KOSPI">>

\* history.json: absent, written by an earlier run of the same day, or full
FullFile ==
    [k \in {KeyOf(j) : j \in 1..MaxEntries} |-> BuildEntry(<<StockA, StockC>>, market_supply, indices_)]

Files ==
    { <<>>,
      AppendHistory(<<>>, today_str, <<StockA>>, market_supply, indices_),
      FullFile }

\* the instruments whose print calls may raise: the first two and the last
CanRaise(n, sel) == n \in {1, 2, Len(sel)}

InitMain ==
    /\ stock = [code |-> "A", price |-> 100]
    /\ ohlcv = <<>>
    /\ supply = <<>>
    /\ loc = [path |-> "pending"]
    /\ result = [phase_key |-> "pending"]
    /\ pc = "main_loop"
    /\ InitHistoryIdle
    /\ unique \in Rankings
    /\ idx = 0
    /\ stocks_ = <<>>
    /\ file \in Files
    /\ nAppend = 0
    /\ nCalc = 0
    /\ failed = {}

\* code = stock["code"] and the print of line 562
BeginIteration ==
    /\ pc = "main_loop"
    /\ MoreToDo(idx, Selected(unique))
    /\ stock' = Selected(unique)[idx + 1]
    /\ pc' = "main_fetch"
    /\ UNCHANGED <<ohlcv, supply, loc, result, hist, appended, order, step, rerun, last>>
    /\ UNCHANGED mainVars

\* the print of line 562 raises
RaiseEarly ==
    /\ pc = "main_loop"
    /\ MoreToDo(idx, Selected(unique))
    /\ CanRaise(idx + 1, Selected(unique))
    /\ stock' = Selected(unique)[idx + 1]
    /\ failed' = failed \cup {<<idx + 1, "print_562">>}
    /\ pc' = "main_except"
    /\ UNCHANGED <<ohlcv, supply, loc, result, hist, appended, order, step, rerun, last,
                   unique, idx, stocks_, file, nAppend, nCalc>>

\* ohlcv = fetch_ohlcv(...); supply = fetch_stock_supply(...)
Fetch ==
    /\ pc = "main_fetch"
    /\ ohlcv' = FetchedBars(stock.code)
    /\ supply' = FetchedFlows(stock.code)
    /\ pc' = "main_classify"
    /\ UNCHANGED <<stock, loc, result, hist, appended, order, step, rerun, last>>
    /\ UNCHANGED mainVars

\* lines 565-576: stock.update(calc_phase(...)) up to stocks.append(stock);
\* stock is the very dict that unique holds
Classify ==
    /\ pc = "main_classify"
    /\ LET r == CalcPhase(ohlcv, supply, Get(stock, "mktcap", 0))
       IN  /\ loc' = r.loc
           /\ result' = r.result
           /\ stock' = Classified(stock, r.result, supply)
    /\ unique' = [unique EXCEPT ![idx + 1] = stock']
    /\ stocks_' = Append(stocks_, stock')
    /\ nCalc' = nCalc + 1
    /\ pc' = "main_print"
    /\ UNCHANGED <<ohlcv, supply, hist, appended, order, step, rerun, last,
                   idx, file, nAppend, failed>>

\* the print of line 577; the iteration ends
EndIteration ==
    /\ pc = "main_print"
    /\ idx' = idx + 1
    /\ pc' = "main_loop"
    /\ UNCHANGED <<stock, ohlcv, supply, loc, result, hist, appended, order, step, rerun,
                   last, unique, stocks_, file, nAppend, nCalc, failed>>

\* the print of line 577 raises, after stocks.append(stock) of line 576
RaiseLate ==
    /\ pc = "main_print"
    /\ CanRaise(idx + 1, Selected(unique))
    /\ failed' = failed \cup {<<idx + 1, "print_577">>}
    /\ pc' = "main_except"
    /\ UNCHANGED <<stock, ohlcv, supply, loc, result, hist, appended, order, step, rerun,
                   last, unique, idx, stocks_, file, nAppend, nCalc>>

\* except Exception: the print of line 579, then stocks.append(stock)
Handler ==
    /\ pc = "main_except"
    /\ stocks_' = Append(stocks_, stock)
    /\ idx' = idx + 1
    /\ pc' = "main_loop"
    /\ UNCHANGED <<stock, ohlcv, supply, loc, result, hist, appended, order, step, rerun,
                   last, unique, file, nAppend, nCalc, failed>>

\* the handler's print raises: the exception leaves main
HandlerRaises ==
    /\ pc = "main_except"
    /\ pc' = "main_aborted"
    /\ UNCHANGED <<stock, ohlcv, supply, loc, result, hist, appended, order, step, rerun, last>>
    /\ UNCHANGED mainVars

\* the loop is over: hist = load_history()
LoadHistory ==
    /\ pc = "main_loop"
    /\ ~MoreToDo(idx, Selected(unique))
    /\ hist' = file
    /\ pc' = "main_append"
    /\ UNCHANGED <<stock, ohlcv, supply, loc, result, appended, order, step, rerun, last>>
    /\ UNCHANGED mainVars

\* hist = append_history(hist, today_str, stocks, market_supply, indices)
AppendToday ==
    /\ pc = "main_append"
    /\ Call(today_str, [stocks |-> stocks_, ms |-> market_supply, indices |-> indices_])
    /\ nAppend' = nAppend + 1
    /\ pc' = "main_save"
    /\ UNCHANGED <<stock, ohlcv, supply, loc, result, order, step, rerun,
                   unique, idx, stocks_, file, nCalc, failed>>

\* save_history(hist)
SaveHistory ==
    /\ pc = "main_save"
    /\ file' = hist
    /\ pc' = "main_done"
    /\ UNCHANGED <<stock, ohlcv, supply, loc, result, hist, appended, order, step, rerun,
                   last, unique, idx, stocks_, nAppend, nCalc, failed>>

NextMain ==
    \/ BeginIteration
    \/ RaiseEarly
    \/ Fetch
    \/ Classify
    \/ EndIteration
    \/ RaiseLate
    \/ Handler
    \/ HandlerRaises
    \/ LoadHistory
    \/ AppendToday
    \/ SaveHistory

SpecMain == InitMain /\ [][NextMain]_vars

(***************************************************************************)
(* Properties of calc_phase.                                               *)
(***************************************************************************)
MktcapArg == Get(stock, "mktcap", 0)
FlowDates == {supply[j].date : j \in DOMAIN supply}
NumValidBars == Cardinality({i \in DOMAIN ohlcv : ohlcv[i].close > 0})

\* the rules in the order the specification lists them
RuleTable(l) ==
    << [holds |-> l.smp[1] > 0 /\ l.f_consec >= 3 /\ l.it_ > 0
                  /\ l.mr[1] * 5 < 4 * l.mr[2] /\ l.vr[1] * 2 < 3 * l.vr[2],
        label |-> "GOLDEN", key |-> "golden"],
       [holds |-> l.vr[1] >= 2 * l.vr[2] /\ l.ft > 0,
        label |-> "P2 volume breakout", key |-> "p2"],
       [holds |-> l.f_consec >= 5 /\ l.smp[1] > 0 /\ l.vr[1] * 5 >= 6 * l.vr[2],
        label |-> "P2 flow acceleration", key |-> "p2"],
       [holds |-> l.ft > 0 /\ l.it_ > 0 /\ l.vr[1] * 10 >= 13 * l.vr[2]
                  /\ l.smp[1] > 0 /\ l.f_consec >= 2,
        label |-> "P2 early rally", key |-> "p2"],
       [holds |-> l.smp[1] > 0 /\ l.f_consec >= 3 /\ l.it_ > 0,
        label |-> "P1 composite flow", key |-> "p1"],
       [holds |-> l.mr[1] * 2 < l.mr[2] /\ l.smp[1] > 0 /\ l.ft > 0,
        label |-> "P1 quiet accumulation", key |-> "p1"],
       [holds |-> l.obv_up /\ l.chg[1] <= 0,
        label |-> "P1 OBV accumulation", key |-> "p1"],
       [holds |-> l.mr[1] > 3 * l.mr[2] /\ l.ft < 0,
        label |-> "P3 distribution warning", key |-> "p3"],
       [holds |-> l.ft < 0 /\ l.it_ < 0,
        label |-> "P3 ownership-turnover warning", key |-> "p3"] >>

FirstMatch(l) ==
    LET T == RuleTable(l)
        S == {i \in 1..Len(T) : T[i].holds}
    IN  IF S = {} THEN <<"", "none">>
        ELSE LET i == CHOOSE x \in S : \A y \in S : x <= y
             IN  <<T[i].label, T[i].key>>

\* C1: the phase and phase_key calc_phase returns are those of the first rule,
\* in the order golden, P2 volume breakout, P2 flow acceleration, P2 early
\* rally, P1 composite flow, P1 quiet accumulation, P1 OBV accumulation,
\* P3 distribution warning, P3 ownership-turnover warning, that the values
\* (smp, f_consec, inst flow, foreign flow, muges ratio, volume ratio,
\* obv_above_ma, change) satisfy, and "" / none when no rule matches.
C1_FirstMatchingRule ==
    Full => <<result.phase, result.phase_key>> = FirstMatch(loc)

\* an input that satisfies both golden and P1 composite flow, classified golden
C1_Witness ==
    /\ Full
    /\ RuleTable(loc)[1].holds
    /\ RuleTable(loc)[5].holds
    /\ result.phase_key = "golden"

\* C4: with fewer than 21 bars of close > 0 (fewer than 21 bars at all
\* included) calc_phase returns the neutral result, whatever the flow rows
\* and the market cap are.
C4_NeutralBelowMinBars ==
    (pc = "done" /\ NumValidBars < MinBars) =>
        /\ result.vol_ratio = Frac(1)
        /\ result.muges_ratio = Frac(1)
        /\ result.smp = Frac(0)
        /\ result.obv_above_ma = FALSE
        /\ result.f_consec = 0
        /\ result.i_consec = 0
        /\ result.phase_key = "none"
        /\ result.phase = ""

\* 21 bars or more, fewer than 21 of them with close > 0, flows and market cap given
C4_Witness ==
    /\ pc = "done"
    /\ Len(ohlcv) >= MinBars
    /\ NumValidBars < MinBars
    /\ \E j \in DOMAIN supply : supply[j].foreign > 0
    /\ MktcapArg > 0
    /\ result = empty

\* the length of the longest suffix of s whose values are all > 0
PositiveSuffix(s) ==
    CHOOSE k \in 0..Len(s) :
        /\ \A j \in (Len(s) - k + 1)..Len(s) : s[j] > 0
        /\ k < Len(s) => s[Len(s) - k] <= 0

\* C5: f_consec and i_consec are the lengths of the longest all-positive
\* suffixes of the aligned foreign and inst columns; the counter gives 3 on
\* [5,-1,3,2,4], 3 on [1,2,3], 0 on [] and 2 on [0,1,2].
C5_ConsecIsPositiveSuffix ==
    /\ Consec(<<5, -1, 3, 2, 4>>) = 3
    /\ Consec(<<1, 2, 3>>) = 3
    /\ Consec(<<>>) = 0
    /\ Consec(<<0, 1, 2>>) = 2
    /\ Full =>
        /\ loc.f_consec = PositiveSuffix(ForeignCol(loc.rows))
        /\ loc.i_consec = PositiveSuffix(InstCol(loc.rows))
        /\ result.f_consec = loc.f_consec
        /\ result.i_consec = loc.i_consec

\* a foreign run of 3 or more that stops at a non-positive day, inst differing
C5_Witness ==
    /\ Full
    /\ loc.f_consec >= 3
    /\ loc.f_consec < Len(loc.rows)
    /\ loc.i_consec # loc.f_consec
    /\ \E k \in DOMAIN loc.rows : loc.rows[k].foreign < 0

\* C6 (as claimed): the aligned table has one row per bar, in the bars' order.
C6_OneRowPerBar ==
    Full =>
        /\ Len(loc.rows) = Len(loc.df)
        /\ \A i \in 1..Len(loc.rows) : i <= Len(loc.df) => loc.rows[i].date = loc.df[i].date

FlowCols == {"foreign", "inst", "foreign_amt", "inst_amt"}

\* C7: a bar date with no flow row has 0 in every flow column of the
\* aligned table; an empty flow series gives flow columns of 0, smp 0.0 and
\* both counts 0; when the last bar's date has no flow row both counts are 0.
C7_MissingFlowIsZero ==
    Full =>
        /\ \A k \in DOMAIN loc.rows :
              loc.rows[k].date \notin FlowDates =>
                 /\ {"foreign", "inst"} \subseteq DOMAIN loc.rows[k]
                 /\ supply # <<>> => FlowCols \subseteq DOMAIN loc.rows[k]
                 /\ \A f \in FlowCols \cap DOMAIN loc.rows[k] : loc.rows[k][f] = 0
        /\ supply = <<>> =>
              /\ result.smp = Frac(0)
              /\ result.f_consec = 0
              /\ result.i_consec = 0
        /\ Last(loc.df).date \notin FlowDates =>
              /\ result.f_consec = 0
              /\ result.i_consec = 0

\* flow rows exist, with net buying on earlier days, but none for the last bar's day
C7_Witness ==
    /\ Full
    /\ supply # <<>>
    /\ Last(loc.df).date \notin FlowDates
    /\ \E k \in DOMAIN loc.rows : loc.rows[k].foreign > 0 /\ loc.rows[k].inst > 0
    /\ MktcapArg > 0
    /\ result.f_consec = 0

\* C8: obv[0] = 0; each later obv differs from the one before by +volume on
\* a higher close, -volume on a lower close and 0 on an equal close;
\* obv_above_ma holds exactly when the last obv exceeds the mean of the last
\* 20 obv values.
C8_ObvRecurrence ==
    Full =>
        LET df == loc.df
            obv == loc.obv
            n == Len(df)
        IN  /\ Len(obv) = n
            /\ obv[1] = 0
            /\ \A i \in 2..n :
                  obv[i] - obv[i - 1] =
                     IF df[i].close > df[i - 1].close THEN df[i].volume
                     ELSE IF df[i].close < df[i - 1].close THEN 0 - df[i].volume
                     ELSE 0
            /\ result.obv_above_ma = (Window * obv[n] > ISum(obv, n - Window + 1, n))

\* a rise, a fall and an unchanged close, each on a day with volume, and obv above its mean
C8_Witness ==
    /\ Full
    /\ \E i \in 2..Len(loc.df) :
          loc.df[i].close > loc.df[i - 1].close /\ loc.df[i].volume > 0
    /\ \E i \in 2..Len(loc.df) :
          loc.df[i].close < loc.df[i - 1].close /\ loc.df[i].volume > 0
    /\ \E i \in 2..Len(loc.df) :
          loc.df[i].close = loc.df[i - 1].close /\ loc.df[i].volume > 0
    /\ result.obv_above_ma

\* the days of the last 20 bars that traded
TradedDays(df) == {i \in (Len(df) - Window + 1)..Len(df) : df[i].volume > 0}

RECURSIVE QuotientSum(_, _)
QuotientSum(df, S) ==
    IF S = {} THEN Frac(0)
    ELSE LET i == CHOOSE x \in S : TRUE
         IN  RAdd(Norm(df[i].high + df[i].low + df[i].close, 3 * df[i].close),
                  QuotientSum(df, S \ {i}))

\* C9 (as claimed): the 20-day muges average is taken over the days with
\* volume > 0 only.
C9_ZeroVolumeDaysExcluded ==
    Full =>
        LET S == TradedDays(loc.df)
        IN  S # {} => loc.mm = RDiv(QuotientSum(loc.df, S), Frac(Cardinality(S)))

\* C10: with mktcap non-positive or absent the returned smp is 0.0 and
\* vol_ratio, muges_ratio, obv_above_ma and both counts are those the same
\* bars and flows give with a positive mktcap.
C10_NoSmpWithoutMktcap ==
    (pc = "done" /\ MktcapArg <= 0) =>
        LET r == CalcPhase(ohlcv, supply, 1).result
        IN  /\ result.smp = Frac(0)
            /\ result.vol_ratio = r.vol_ratio
            /\ result.muges_ratio = r.muges_ratio
            /\ result.obv_above_ma = r.obv_above_ma
            /\ result.f_consec = r.f_consec
            /\ result.i_consec = r.i_consec

\* no mktcap in the instrument dict, flows that give a non-zero smp with a market cap
C10_Witness ==
    /\ Full
    /\ "mktcap" \notin DOMAIN stock
    /\ CalcPhase(ohlcv, supply, 1).result.smp # Frac(0)
    /\ result.smp = Frac(0)
    /\ result.vol_ratio # Frac(1)
    /\ result.f_consec > 0

\* the last bar with close > 0 that carries the date d
LastBarOf(d) ==
    LET v == ValidBars(ohlcv)
    IN  v[CHOOSE i \in DOMAIN v : v[i].date = d /\ \A j \in DOMAIN v : v[j].date = d => j <= i]

\* C12 (as claimed): the table calc_phase computes over holds one row for
\* each date of the bars, and that row is the last bar of the date.
C12_KeepsLastBarOfDate ==
    Full =>
        \A d \in {loc.df[k].date : k \in DOMAIN loc.df} :
            /\ Cardinality({k \in DOMAIN loc.df : loc.df[k].date = d}) = 1
            /\ \A k \in DOMAIN loc.df : loc.df[k].date = d => loc.df[k] = LastBarOf(d)

\* the cascade's rules that need smp > 0
SmpRules ==
    {"GOLDEN", "P2 flow acceleration", "P2 early rally", "P1 composite flow",
     "P1 quiet accumulation"}

\* C14: with an empty flow series calc_phase returns 'none' or, by the
\* OBV-accumulation rule alone (obv above its mean, change <= 0), 'p1'; with
\* mktcap <= 0 smp is 0 and the result is neither 'golden' nor the label of
\* a rule that needs smp > 0.
C14_NoFlowRuleWithoutFlows ==
    pc = "done" =>
        /\ supply = <<>> =>
              \/ result.phase_key = "none" /\ result.phase = ""
              \/ /\ result.phase_key = "p1"
                 /\ result.phase = "P1 OBV accumulation"
                 /\ Full
                 /\ loc.obv_up
                 /\ RLe(loc.chg, Frac(0))
        /\ MktcapArg <= 0 =>
              /\ result.smp = Frac(0)
              /\ result.phase_key # "golden"
              /\ result.phase \notin SmpRules

\* no flow rows, and the OBV rule fires
C14_Witness ==
    /\ Full
    /\ supply = <<>>
    /\ result.phase_key = "p1"
    /\ loc.obv_up

(***************************************************************************)
(* Properties of append_history.                                           *)
(***************************************************************************)
\* the n largest keys of S
Largest(S, n) == {k \in S : Cardinality({j \in S : LexLess(k, j)}) < n}

\* C2: after every append, from an empty store and in any order of keys, the
\* store holds at most 60 keys, and they are the 60 largest of all keys
\* appended so far (all of them when there are fewer than 60).
C2_KeepsLargestSixty ==
    /\ Cardinality(DOMAIN hist) <= 60
    /\ DOMAIN hist = Largest(appended, 60)

\* 70 keys appended in ascending order, 60 kept
C2_Witness ==
    /\ order = 1
    /\ rerun = "no"
    /\ Cardinality(appended) = 70
    /\ Cardinality(DOMAIN hist) = 60
    /\ KeyOf(9) \notin DOMAIN hist
    /\ KeyOf(10) \in DOMAIN hist

\* C3: an append under a key the store holds leaves the set of keys and
\* every other entry as they were and makes the key's entry the one built
\* from this call; an append with the arguments of the append before it
\* leaves the store as it was.
C3_AppendReplaces ==
    [][ /\ last'.key \in DOMAIN hist =>
              /\ DOMAIN hist' = DOMAIN hist
              /\ hist'[last'.key] = BuildEntry(last'.stocks, last'.ms, last'.indices)
              /\ \A k \in DOMAIN hist \ {last'.key} : hist'[k] = hist[k]
        /\ last' = last => hist' = hist ]_vars

\* a key the store held was appended again with other data, and its entry is the new one
C3_Witness ==
    /\ rerun = "replaced"
    /\ last.key \in DOMAIN hist
    /\ Cardinality(DOMAIN hist) > 1
    /\ hist[last.key] = BuildEntry(last.stocks, last.ms, last.indices)
    /\ \E k \in DOMAIN hist : hist[k] # hist[last.key]

(***************************************************************************)
(* Properties of main.                                                     *)
(***************************************************************************)
NumSelected == Len(Selected(unique))

\* where the run stands with respect to its append_history call
AppendInPlace ==
    /\ nAppend <= 1
    /\ nAppend = 1 <=> pc \in {"main_save", "main_done"}
    /\ nAppend = 1 => idx = NumSelected
    /\ pc = "main_done" => file = hist /\ today_str \in DOMAIN file

\* C11: in one run of main, append_history is called at most once and, in a
\* run that reaches save_history, exactly once; the call comes after the
\* loop has ended for every selected instrument and before save_history
\* writes the file; no calc_phase call and no change of the result list
\* follows it; the store changes in no other step than the load and that
\* call.  Instruments whose processing raised make no difference.
C11_SingleAppendAfterLoop ==
    [][/\ AppendInPlace
       /\ AppendInPlace'
       /\ nCalc' # nCalc => nAppend' = 0
       /\ stocks_' # stocks_ => nAppend' = 0
       /\ hist' # hist =>
             \/ nAppend = 0 /\ nAppend' = 1
             \/ nAppend = 0 /\ nAppend' = 0 /\ hist' = file
       /\ file' # file => nAppend = 1 /\ file' = hist]_vars

\* a finished run over more than MAX_STOCKS instruments in which exceptions
\* were caught
C11_Witness ==
    /\ pc = "main_done"
    /\ nAppend = 1
    /\ nCalc > 0
    /\ failed # {}
    /\ Len(unique) > MAX_STOCKS
    /\ file = hist

\* the loop has ended for every selected instrument
LoopOver == pc \in {"main_append", "main_save", "main_done"}

\* C13 (as claimed): whatever an iteration raised, once the loop is over the
\* result list holds every selected instrument exactly once, in selection
\* order, and the history snapshot records each instrument whose processing
\* raised with phase_key 'none' and an empty phase.
C13_FailureIsolated ==
    /\ LoopOver =>
          /\ Len(stocks_) = NumSelected
          /\ \A k \in 1..NumSelected :
                k <= Len(stocks_) => stocks_[k].code = Selected(unique)[k].code
    /\ nAppend = 1 =>
          \A f \in failed :
              LET e == hist[today_str].stocks[Selected(unique)[f[1]].code]
              IN  e.phase_key = "none" /\ e.phase = ""

====
